---- MODULE Spec2Model ----
(***************************************************************************)
(* Model of the bgp-speaker: the supervisor (Speaker.Run / Speaker.setup), *)
(* the health checker (HealthCheck.Run) gating the anycast advertisement,  *)
(* and the RIB -> FIB reconciler (Speaker.UpdateFIB).                      *)
(***************************************************************************)
EXTENDS Naturals, Sequences, FiniteSets

VARIABLES
    healthCheckURL,  \* Config.HealthCheckURL (raw string, by kind)
    runPc,           \* position of Speaker.Run
    runErr,          \* the error Speaker.Run returns ("none" when nil)
    cancelled,       \* the supervising context is done
    bgp,             \* embedded engine: "created", "started", "stopped"
    anycastPresent,  \* the anycast path is in the engine's global table
    hcPc,            \* position of HealthCheck.Run
    status,          \* HealthCheck.status
    okCounter,       \* HealthCheck.okCounter
    hist,            \* observer: the last HistLen ticks of the health checker, newest first
    lastCb,          \* observer: the last executed health-checker callback
    lastOkCb,        \* observer: the last health-checker callback that returned nil
    retryDue,        \* observer: the latest on_healthy failed and no probe has succeeded since
    startupAdvertises, \* observer: addPath calls made by Speaker.setup
    everProbed,      \* observer: HealthCheck.Do has been called
    engineOps,       \* observer: the engine requests Speaker.setup made, in order, and whether each worked
    policy,          \* the engine's policy tables: defined sets, policies, the global assignments
    decision,        \* observer: the last path a peer sent or was to be sent, and the policy's verdict
    stopCalls,       \* observer: the stopBgp calls of Speaker.Run: whether the context was done, whether it worked
    fibPc,           \* position of Speaker.UpdateFIB ("off" without update_fib_metric)
    fibErr,          \* the error Speaker.UpdateFIB returns ("none" when nil)
    kernel,          \* the kernel's routing tables: routes in dump order
    rib,             \* the engine's global table: what ListPath streams
    lastFib          \* observer: the last reconciler step, its error and the netlink mutations it sent

hcVars == <<hcPc, status, okCounter, hist, lastCb, lastOkCb, retryDue, everProbed>>
supVars == <<healthCheckURL, policy, decision, runPc, runErr, cancelled, bgp, anycastPresent, startupAdvertises,
             engineOps, stopCalls>>
fibVars == <<fibPc, fibErr, kernel, rib, lastFib>>
vars == <<healthCheckURL, policy, decision, runPc, runErr, cancelled, bgp, anycastPresent,
          hcPc, status, okCounter, hist, lastCb, lastOkCb, retryDue,
          startupAdvertises, everProbed, engineOps, stopCalls,
          fibPc, fibErr, kernel, rib, lastFib>>

----------------------------------------------------------------------------
(* Bounds of the model *)

HistLen == 3
MaxKernelRoutes == 2

----------------------------------------------------------------------------
(* Constants of the program *)

healthyThreshold == 3

Unhealthy == "Unhealthy"
Healthy == "Healthy"

\* The kinds of health_check_url a config file can carry: the empty string,
\* "#" (parses to a URL that prints as the empty string), an absolute http
\* URL, and a string url.Parse rejects.
RawURLs == {"", "#", "http://127.0.0.1:8080/healthz", "%zz"}

\* url.Parse: fails on an invalid escape.
URLParses(raw) == raw # "%zz"

\* url.Parse followed by URL.String: an empty fragment is dropped.
URLString(raw) == IF raw = "#" THEN "" ELSE raw

----------------------------------------------------------------------------
(* The BGP engine's global table, as far as the anycast path goes *)

\* Config.AnycastIP with the prefix length of Speaker.anycastPath
AnycastPrefix == "10.0.0.1/32"

\* Speaker.anycastPath: the path both addPath and deletePath send
anycastPath == [nlri |-> AnycastPrefix, origin |-> "IGP", nextHop |-> "0.0.0.0"]

\* a path as ListPath streams it
StreamedPath(path) == [hasNextHop |-> TRUE, nextHop |-> path.nextHop]

HasDest(table, prefix) == \E i \in DOMAIN table : table[i].prefix = prefix

\* the table holds the path
HasPath(table, path) ==
    \E i \in DOMAIN table :
        /\ table[i].prefix = path.nlri
        /\ \E j \in DOMAIN table[i].paths : table[i].paths[j] = StreamedPath(path)

\* mutant: every AddPath adds one more destination
EngineAddPath_Appends(table, path) ==
    <<[prefix |-> path.nlri, paths |-> <<StreamedPath(path)>>]>> \o table

\* BgpServer.AddPath and a received UPDATE: the path takes the place of the
\* path of the same prefix from the same source, if there is one
EngineAddPath(table, path) ==
    IF HasPath(table, path)
      THEN table
      ELSE IF HasDest(table, path.nlri)
             THEN [i \in DOMAIN table |->
                      IF table[i].prefix = path.nlri
                        THEN [table[i] EXCEPT !.paths = Append(@, StreamedPath(path))]
                        ELSE table[i]]
             ELSE <<[prefix |-> path.nlri, paths |-> <<StreamedPath(path)>>]>> \o table

\* BgpServer.DeletePath and a received withdraw: the path leaves its
\* destination, the destination leaves the table with its last path;
\* withdrawing a path the table does not hold changes nothing
EngineDeletePath(table, path) ==
    LET without ==
            [i \in DOMAIN table |->
                IF table[i].prefix = path.nlri
                  THEN [table[i] EXCEPT !.paths = SelectSeq(@, LAMBDA q : q # StreamedPath(path))]
                  ELSE table[i]]
    IN SelectSeq(without, LAMBDA d : d.paths # <<>>)

\* Speaker.addPath: AddPath of the anycast path; an error leaves the table alone.
AddPathResult(present, ok) == IF ok THEN TRUE ELSE present

\* Speaker.deletePath: DeletePath of the anycast path; an error leaves the table alone.
DeletePathResult(present, ok) == IF ok THEN FALSE ELSE present

----------------------------------------------------------------------------
(* The BGP engine's policy tables and what Speaker.setupPolicies asks for *)

\* Config.Neighbors: the configured uplinks
Neighbors == {"10.1.0.1", "10.2.0.1"}

\* the prefixes paths are tried with; address octets and mask length
ParsePrefix(str) ==
    CASE str = "0.0.0.0/0" -> [ip |-> <<0, 0, 0, 0>>, len |-> 0]
      [] str = "10.0.0.1/32" -> [ip |-> <<10, 0, 0, 1>>, len |-> 32]
      [] str = "10.0.0.2/32" -> [ip |-> <<10, 0, 0, 2>>, len |-> 32]
      [] str = "10.0.0.0/24" -> [ip |-> <<10, 0, 0, 0>>, len |-> 24]
      [] str = "0.0.0.0/8" -> [ip |-> <<0, 0, 0, 0>>, len |-> 8]

TriedPrefixes == {"0.0.0.0/0", "10.0.0.1/32", "10.0.0.2/32", "10.0.0.0/24", "0.0.0.0/8"}

\* the names of healthcheck.go's const block
defaultRoute == "default-route"
uplinks == "uplinks"
defaultRoutePolicy == "only-default-route"
onlyAnycastIP == "only-anycast-ip"
anycastIP == "anycast-ip"

\* Speaker.addDefinedSets: the three defined sets, in the order they are added
DefinedSets ==
    << [type |-> "prefix", name |-> defaultRoute,
        prefixes |-> {[ipPrefix |-> "0.0.0.0/0", maskLengthMin |-> 0, maskLengthMax |-> 0]},
        list |-> {}],
       [type |-> "prefix", name |-> anycastIP,
        prefixes |-> {[ipPrefix |-> AnycastPrefix, maskLengthMin |-> 32, maskLengthMax |-> 32]},
        list |-> {}],
       [type |-> "neighbor", name |-> uplinks,
        prefixes |-> {},
        list |-> Neighbors] >>

accept == "accept"
reject == "reject"

\* Speaker.createDefaultRoutePolicy
createDefaultRoutePolicy ==
    [name |-> defaultRoutePolicy,
     statements |-> << [name |-> "allow-default-route", prefixSet |-> defaultRoute,
                        neighborSet |-> uplinks, routeType |-> "none",
                        routeAction |-> accept] >>]

\* Speaker.createAnycastIPPolicy
createAnycastIPPolicy ==
    [name |-> onlyAnycastIP,
     statements |-> << [name |-> "allow-anycast-ip", prefixSet |-> anycastIP,
                        neighborSet |-> uplinks, routeType |-> "none",
                        routeAction |-> accept] >>]

\* Speaker.createAnycastIPPolicyImport
createAnycastIPPolicyImport ==
    [name |-> onlyAnycastIP,
     statements |-> << [name |-> "allow-anycast-ip-igp", prefixSet |-> anycastIP,
                        neighborSet |-> "none", routeType |-> "local",
                        routeAction |-> accept] >>]

\* the policy names of an assignment request: the engine reads the names of
\* the policies it is handed
NamesOf(policies) == [i \in DOMAIN policies |-> policies[i].name]

\* Speaker.setupPolicies: the engine requests, in order
PolicyRequests ==
    [i \in DOMAIN DefinedSets |-> [call |-> "AddDefinedSet", set |-> DefinedSets[i]]]
    \o << [call |-> "AddPolicy", policy |-> createDefaultRoutePolicy],
          [call |-> "AddPolicy", policy |-> createAnycastIPPolicy],
          [call |-> "AddPolicy", policy |-> createAnycastIPPolicyImport],
          [call |-> "AddPolicyAssignment", direction |-> "import",
           policies |-> NamesOf(<<createDefaultRoutePolicy, createAnycastIPPolicyImport>>),
           defaultAction |-> reject],
          [call |-> "AddPolicyAssignment", direction |-> "export",
           policies |-> NamesOf(<<createAnycastIPPolicy>>),
           defaultAction |-> reject] >>

\* the engine before any request: no sets, no policies, nothing assigned and
\* every path accepted
NoPolicy ==
    [sets |-> <<>>, policies |-> <<>>,
     import |-> [policies |-> <<>>, defaultAction |-> accept],
     export |-> [policies |-> <<>>, defaultAction |-> accept]]

HasPolicy(pol, name) == \E i \in DOMAIN pol.policies : pol.policies[i].name = name

StatementNames(pol) ==
    UNION {{pol.policies[i].statements[j].name : j \in DOMAIN pol.policies[i].statements} :
              i \in DOMAIN pol.policies}

NoDuplicates(seq) == \A i, j \in DOMAIN seq : seq[i] = seq[j] => i = j

\* whether the engine takes the request: AddPolicy (without
\* ReferExistingStatements) refuses a statement name it already has,
\* AddPolicyAssignment a policy it does not know or one named twice
RequestWorks(pol, req) ==
    CASE req.call = "AddDefinedSet" -> TRUE
      [] req.call = "AddPolicy" ->
            \A j \in DOMAIN req.policy.statements :
                req.policy.statements[j].name \notin StatementNames(pol)
      [] req.call = "AddPolicyAssignment" ->
            /\ \A j \in DOMAIN req.policies : HasPolicy(pol, req.policies[j])
            /\ NoDuplicates(req.policies)

\* mutant: a policy added under a name the engine has is kept beside it
EngineAddPolicy_KeepsApart(pol, p) == [pol EXCEPT !.policies = Append(@, p)]

\* BgpServer.AddPolicy: the statements of a policy whose name the engine
\* already has are appended to the policy of that name
EngineAddPolicy(pol, p) ==
    IF HasPolicy(pol, p.name)
      THEN [pol EXCEPT !.policies =
               [i \in DOMAIN pol.policies |->
                   IF pol.policies[i].name = p.name
                     THEN [name |-> p.name,
                           statements |-> pol.policies[i].statements \o p.statements]
                     ELSE pol.policies[i]]]
      ELSE [pol EXCEPT !.policies = Append(@, p)]

\* the engine after one request it takes
AfterRequest(pol, req) ==
    CASE req.call = "AddDefinedSet" -> [pol EXCEPT !.sets = Append(@, req.set)]
      [] req.call = "AddPolicy" -> EngineAddPolicy(pol, req.policy)
      [] req.call = "AddPolicyAssignment" ->
            IF req.direction = "import"
              THEN [pol EXCEPT !.import = [policies |-> req.policies,
                                           defaultAction |-> req.defaultAction]]
              ELSE [pol EXCEPT !.export = [policies |-> req.policies,
                                           defaultAction |-> req.defaultAction]]

\* the engine after the first n of the requests, stopping at one it refuses
RECURSIVE AfterRequests(_, _, _)
AfterRequests(pol, reqs, n) ==
    IF n = 0 \/ reqs = <<>> \/ ~RequestWorks(pol, Head(reqs))
      THEN pol
      ELSE AfterRequests(AfterRequest(pol, Head(reqs)), Tail(reqs), n - 1)

\* whether the engine takes every one of the requests
RECURSIVE RequestsWork(_, _)
RequestsWork(pol, reqs) ==
    IF reqs = <<>>
      THEN TRUE
      ELSE /\ RequestWorks(pol, Head(reqs))
           /\ RequestsWork(AfterRequest(pol, Head(reqs)), Tail(reqs))

\* the engine once setupPolicies has returned nil
InstalledPolicy == AfterRequests(NoPolicy, PolicyRequests, Len(PolicyRequests))

\* a prefix set matches a prefix inside one of its prefixes whose mask length
\* is in the range
Covers(base, pfx) ==
    /\ base.len <= pfx.len
    /\ \A i \in 1..(base.len \div 8) : base.ip[i] = pfx.ip[i]

PrefixSetMatches(pol, name, nlri) ==
    \E i \in DOMAIN pol.sets :
        /\ pol.sets[i].type = "prefix"
        /\ pol.sets[i].name = name
        /\ \E e \in pol.sets[i].prefixes :
              /\ Covers(ParsePrefix(e.ipPrefix), ParsePrefix(nlri))
              /\ ParsePrefix(nlri).len >= e.maskLengthMin
              /\ ParsePrefix(nlri).len <= e.maskLengthMax

\* a neighbor set is matched by the peer the path is sent to, or else by the
\* peer it came from; a local path that is not being sent has neither
NeighborSetMatches(pol, name, source, target) ==
    LET neighbor == IF target # "none" THEN target ELSE source
    IN /\ neighbor # "local"
       /\ \E i \in DOMAIN pol.sets :
             /\ pol.sets[i].type = "neighbor"
             /\ pol.sets[i].name = name
             /\ neighbor \in pol.sets[i].list

StatementMatches(pol, st, nlri, source, target) ==
    /\ PrefixSetMatches(pol, st.prefixSet, nlri)
    /\ st.neighborSet # "none" => NeighborSetMatches(pol, st.neighborSet, source, target)
    /\ st.routeType = "local" => source = "local"

\* the statements of the policies of the names, in order
RECURSIVE StatementsOf(_, _)
StatementsOf(pol, names) ==
    IF names = <<>>
      THEN <<>>
      ELSE LET found == SelectSeq(pol.policies, LAMBDA q : q.name = Head(names))
           IN (IF found = <<>> THEN <<>> ELSE found[1].statements)
              \o StatementsOf(pol, Tail(names))

\* the verdict of a global assignment on a path: the action of the first
\* statement that matches, or else the default action
ApplyPolicy(pol, direction, nlri, source, target) ==
    LET assigned == IF direction = "import" THEN pol.import ELSE pol.export
        sts == StatementsOf(pol, assigned.policies)
        hits == {i \in DOMAIN sts : StatementMatches(pol, sts[i], nlri, source, target)}
    IN IF hits = {}
         THEN assigned.defaultAction
         ELSE sts[CHOOSE i \in hits : \A j \in hits : i <= j].routeAction

NoDecision ==
    [direction |-> "none", nlri |-> "none", source |-> "none", target |-> "none",
     verdict |-> "none"]

\* the engine puts a path added locally to the global import policy; a path
\* the policy rejects is not kept
LocalPathKept(pol, path) == ApplyPolicy(pol, "import", path.nlri, "local", "none") = accept

\* the global table after Speaker.addPath and Speaker.deletePath
TableAfterDelete(table, ok) == IF ok THEN EngineDeletePath(table, anycastPath) ELSE table
TableAfterAdd(pol, table, ok) ==
    IF ok /\ LocalPathKept(pol, anycastPath)
      THEN EngineAddPath(table, anycastPath)
      ELSE TableAfterDelete(table, ok)

----------------------------------------------------------------------------
(* Speaker.setup and Speaker.Run *)

\* mutant: setup advertises whatever the URL is
SetupAdvertises_Always(url) == TRUE

\* Speaker.setup: the startup advertise happens only with an empty URL.
SetupAdvertises(url) == url = ""

\* A failed setup step: Run returns the error, the deferred Stop stops the engine.
SetupFails ==
    /\ runPc' = "returned"
    /\ runErr' = "setup"
    /\ bgp' = "stopped"

StartBgp(ok) ==
    /\ runPc = "setup_start"
    /\ IF ok
         THEN /\ bgp' = "started"
              /\ runPc' = "setup_policy"
              /\ UNCHANGED runErr
         ELSE SetupFails
    /\ engineOps' = Append(engineOps, [op |-> "start", ok |-> ok])
    /\ UNCHANGED <<healthCheckURL, policy, decision, cancelled, anycastPresent, startupAdvertises, stopCalls>>
    /\ UNCHANGED hcVars
    /\ UNCHANGED fibVars

\* Speaker.setupPolicies: the requests are made in order up to the first that
\* fails; done is the number of requests that worked.
SetupPolicies(done) ==
    /\ runPc = "setup_policy"
    /\ LET ok == done = Len(PolicyRequests) /\ RequestsWork(policy, PolicyRequests)
       IN /\ IF ok
               THEN /\ runPc' = "setup_peers"
                    /\ UNCHANGED <<runErr, bgp>>
               ELSE SetupFails
          /\ engineOps' = Append(engineOps, [op |-> "install_policy", ok |-> ok])
    /\ policy' = AfterRequests(policy, PolicyRequests, done)
    /\ UNCHANGED <<healthCheckURL, decision, cancelled, anycastPresent, startupAdvertises, stopCalls>>
    /\ UNCHANGED hcVars
    /\ UNCHANGED fibVars

AddNeighbors(ok) ==
    /\ runPc = "setup_peers"
    /\ IF ok
         THEN /\ runPc' = "setup_advertise"
              /\ UNCHANGED <<runErr, bgp>>
         ELSE SetupFails
    /\ engineOps' = Append(engineOps, [op |-> "add_peers", ok |-> ok])
    /\ UNCHANGED <<healthCheckURL, policy, decision, cancelled, anycastPresent, startupAdvertises, stopCalls>>
    /\ UNCHANGED hcVars
    /\ UNCHANGED fibVars

SetupAdvertise(ok) ==
    /\ runPc = "setup_advertise"
    /\ IF SetupAdvertises(healthCheckURL)
         THEN /\ anycastPresent' = AddPathResult(anycastPresent, ok /\ LocalPathKept(policy, anycastPath))
              /\ rib' = TableAfterAdd(policy, rib, ok)
              /\ startupAdvertises' = startupAdvertises + 1
              /\ engineOps' = Append(engineOps, [op |-> "advertise", ok |-> ok])
              /\ IF ok
                   THEN /\ runPc' = "spawn"
                        /\ UNCHANGED <<runErr, bgp>>
                   ELSE SetupFails
         ELSE /\ runPc' = "spawn"
              /\ UNCHANGED <<runErr, bgp, anycastPresent, startupAdvertises, engineOps, rib>>
    /\ UNCHANGED <<healthCheckURL, policy, decision, cancelled, stopCalls>>
    /\ UNCHANGED hcVars
    /\ UNCHANGED <<fibPc, fibErr, kernel, lastFib>>

\* mutant: Run never takes the blocking branch
RunBlocks_Never(url) == FALSE

\* HealthCheck.Run: with a URL that prints empty, block until cancellation.
RunBlocks(url) == URLString(url) = ""

\* The reconciler joins the error group when update_fib_metric is configured.
GoUpdateFIB(pc) == IF pc = "configured" THEN "idle" ELSE pc

\* NewHealthCheck and eg.Go: a URL that does not parse ends Run with an error.
Spawn ==
    /\ runPc = "spawn"
    /\ IF URLParses(healthCheckURL)
         THEN /\ runPc' = "wait"
              /\ hcPc' = IF RunBlocks(healthCheckURL) THEN "blocked" ELSE "loop"
              /\ fibPc' = GoUpdateFIB(fibPc)
              /\ UNCHANGED <<runErr, bgp>>
         ELSE /\ runPc' = "returned"
              /\ runErr' = "healthcheck"
              /\ bgp' = "stopped"
              /\ UNCHANGED <<hcPc, fibPc>>
    /\ UNCHANGED <<healthCheckURL, policy, decision, cancelled, anycastPresent, startupAdvertises, engineOps,
                   stopCalls>>
    /\ UNCHANGED <<status, okCounter, hist, lastCb, lastOkCb, retryDue, everProbed>>
    /\ UNCHANGED <<fibErr, kernel, rib, lastFib>>

\* The error eg.Wait returns: HealthCheck.Run returns nil, so it is the
\* reconciler's, if any.
GroupError(fibError) == fibError

\* eg.Wait returns once every task has returned.
Wait ==
    /\ runPc = "wait"
    /\ hcPc = "returned"
    /\ fibPc \in {"off", "returned"}
    /\ runPc' = "stop"
    /\ runErr' = GroupError(fibErr)
    /\ UNCHANGED <<healthCheckURL, policy, decision, cancelled, bgp, anycastPresent, startupAdvertises, engineOps,
                   stopCalls>>
    /\ UNCHANGED hcVars
    /\ UNCHANGED fibVars

\* mutant: stopBgp is called with the context of the group
StopContext_OfGroup(groupDone) == groupDone

\* context.WithTimeout(context.Background(), time.Second): whether the
\* context stopBgp is called with is done at the call, given that of the group
StopContext(groupDone) == FALSE

\* stopBgp under a fresh deadline; its error is logged, Run returns the group's.
StopBgp(ok) ==
    /\ runPc = "stop"
    /\ runPc' = "returned"
    /\ bgp' = "stopped"
    /\ stopCalls' = Append(stopCalls, [ctxDone |-> StopContext(cancelled), ok |-> ok])
    /\ UNCHANGED <<healthCheckURL, policy, decision, runErr, cancelled, anycastPresent, startupAdvertises,
                   engineOps>>
    /\ UNCHANGED hcVars
    /\ UNCHANGED fibVars

\* the gobgp command: exit status 1 when Run returns an error
ExitCode(err) == IF err = "none" THEN 0 ELSE 1

\* SIGINT or SIGTERM cancels the context.
Signal ==
    /\ ~cancelled
    /\ runPc # "returned"
    /\ cancelled' = TRUE
    /\ UNCHANGED <<healthCheckURL, policy, decision, runPc, runErr, bgp, anycastPresent, startupAdvertises,
                   engineOps, stopCalls>>
    /\ UNCHANGED hcVars
    /\ UNCHANGED fibVars

----------------------------------------------------------------------------
(* HealthCheck.Run *)

\* mutant: the comparison is made against the incremented count
ThresholdReached_Incremented(cnt) == cnt + 1 >= healthyThreshold

\* the comparison against the threshold (made before the increment)
ThresholdReached(cnt) == cnt >= healthyThreshold

\* mutant: a failed withdraw flips the status all the same
OnProbeFailHealthy_FlipOnError(cnt, cbOk) ==
    [status |-> Unhealthy, okCounter |-> 0, cb |-> "unhealthy"]

\* mutant: the transition to Unhealthy keeps the counter
OnProbeFailHealthy_KeepCounter(cnt, cbOk) ==
    IF ~cbOk
      THEN [status |-> Healthy, okCounter |-> cnt, cb |-> "unhealthy"]
      ELSE [status |-> Unhealthy, okCounter |-> cnt, cb |-> "unhealthy"]

\* err != nil && status == Healthy
OnProbeFailHealthy(cnt, cbOk) ==
    IF ~cbOk
      THEN [status |-> Healthy, okCounter |-> cnt, cb |-> "unhealthy"]
      ELSE [status |-> Unhealthy, okCounter |-> 0, cb |-> "unhealthy"]

\* mutant: a failed advertise zeroes the counter
OnProbeOkUnhealthy_ResetOnError(cnt, cbOk) ==
    IF ThresholdReached(cnt)
      THEN IF ~cbOk
             THEN [status |-> Unhealthy, okCounter |-> 0, cb |-> "healthy"]
             ELSE [status |-> Healthy, okCounter |-> cnt, cb |-> "healthy"]
      ELSE [status |-> Unhealthy, okCounter |-> cnt + 1, cb |-> "none"]

\* mutant: a failed advertise counts as one more success
OnProbeOkUnhealthy_CountsRetries(cnt, cbOk) ==
    IF ThresholdReached(cnt)
      THEN IF ~cbOk
             THEN [status |-> Unhealthy, okCounter |-> cnt + 1, cb |-> "healthy"]
             ELSE [status |-> Healthy, okCounter |-> cnt, cb |-> "healthy"]
      ELSE [status |-> Unhealthy, okCounter |-> cnt + 1, cb |-> "none"]

\* mutant: a failed advertise promotes all the same
OnProbeOkUnhealthy_PromoteOnError(cnt, cbOk) ==
    IF ThresholdReached(cnt)
      THEN [status |-> Healthy, okCounter |-> cnt, cb |-> "healthy"]
      ELSE [status |-> Unhealthy, okCounter |-> cnt + 1, cb |-> "none"]

\* mutant: the promotion zeroes the counter
OnProbeOkUnhealthy_ResetOnPromotion(cnt, cbOk) ==
    IF ThresholdReached(cnt)
      THEN IF ~cbOk
             THEN [status |-> Unhealthy, okCounter |-> cnt, cb |-> "healthy"]
             ELSE [status |-> Healthy, okCounter |-> 0, cb |-> "healthy"]
      ELSE [status |-> Unhealthy, okCounter |-> cnt + 1, cb |-> "none"]

\* err == nil && status == Unhealthy
OnProbeOkUnhealthy(cnt, cbOk) ==
    IF ThresholdReached(cnt)
      THEN IF ~cbOk
             THEN [status |-> Unhealthy, okCounter |-> cnt, cb |-> "healthy"]
             ELSE [status |-> Healthy, okCounter |-> cnt, cb |-> "healthy"]
      ELSE [status |-> Unhealthy, okCounter |-> cnt + 1, cb |-> "none"]

\* mutant: a failed probe while Unhealthy zeroes the counter
HealthTick_ResetOnFailure(st, cnt, probeOk, cbOk) ==
    IF ~probeOk /\ st = Healthy
      THEN OnProbeFailHealthy(cnt, cbOk)
      ELSE IF probeOk /\ st = Unhealthy
             THEN OnProbeOkUnhealthy(cnt, cbOk)
             ELSE [status |-> st, okCounter |-> IF probeOk THEN cnt ELSE 0, cb |-> "none"]

\* one pass of the ticker case: the new status and counter, and the callback invoked
HealthTick(st, cnt, probeOk, cbOk) ==
    IF ~probeOk /\ st = Healthy
      THEN OnProbeFailHealthy(cnt, cbOk)
      ELSE IF probeOk /\ st = Unhealthy
             THEN OnProbeOkUnhealthy(cnt, cbOk)
             ELSE [status |-> st, okCounter |-> cnt, cb |-> "none"]

Push(rec, h) == IF Len(h) < HistLen THEN <<rec>> \o h ELSE <<rec>> \o SubSeq(h, 1, HistLen - 1)

\* The ticker case. A probe made with a cancelled context fails.
HCTick(probeOk, cbOk) ==
    /\ hcPc = "loop"
    /\ cancelled => ~probeOk
    /\ LET r == HealthTick(status, okCounter, probeOk, cbOk)
           called == r.cb # "none"
       IN /\ status' = r.status
          /\ okCounter' = r.okCounter
          /\ anycastPresent' =
                CASE r.cb = "healthy" -> AddPathResult(anycastPresent, cbOk /\ LocalPathKept(policy, anycastPath))
                  [] r.cb = "unhealthy" -> DeletePathResult(anycastPresent, cbOk)
                  [] OTHER -> anycastPresent
          /\ rib' =
                CASE r.cb = "healthy" -> TableAfterAdd(policy, rib, cbOk)
                  [] r.cb = "unhealthy" -> TableAfterDelete(rib, cbOk)
                  [] OTHER -> rib
          /\ hist' = Push([probe |-> probeOk, cb |-> r.cb, cbOk |-> called /\ cbOk,
                           status |-> status, count |-> okCounter,
                           retry |-> retryDue], hist)
          /\ lastCb' = IF called THEN [name |-> r.cb, ok |-> cbOk] ELSE lastCb
          /\ lastOkCb' = IF called /\ cbOk THEN r.cb ELSE lastOkCb
          /\ retryDue' = IF probeOk THEN (r.cb = "healthy" /\ ~cbOk) ELSE retryDue
    /\ everProbed' = TRUE
    /\ UNCHANGED <<healthCheckURL, policy, decision, runPc, runErr, cancelled, bgp, startupAdvertises, hcPc,
                   engineOps, stopCalls>>
    /\ UNCHANGED <<fibPc, fibErr, kernel, lastFib>>

\* mutant: the ctx.Done case is never taken
HCExit_KeepsTicking ==
    /\ FALSE
    /\ UNCHANGED vars

\* The ctx.Done case of the loop, and the blocking branch for an empty URL.
HCExit ==
    /\ hcPc \in {"loop", "blocked"}
    /\ cancelled
    /\ hcPc' = "returned"
    /\ UNCHANGED supVars
    /\ UNCHANGED <<status, okCounter, hist, lastCb, lastOkCb, retryDue, everProbed>>
    /\ UNCHANGED fibVars

----------------------------------------------------------------------------
(* Addresses: net.ParseIP, IP.To4 and IP.String on the addresses in play.  *)
(* An IP is its byte sequence; the nil IP is the empty sequence.           *)

HopStrings == {"10.1.0.1", "10.2.0.1", "fe80::1"}

ParseIP(s) ==
    CASE s = "10.1.0.1" -> <<10, 1, 0, 1>>
      [] s = "10.2.0.1" -> <<10, 2, 0, 1>>
      [] s = "0.0.0.0" -> <<0, 0, 0, 0>>
      [] s = "fe80::1" -> <<254, 128, 0, 0, 0, 0, 0, 0, 0, 0, 0, 0, 0, 0, 0, 1>>
      [] OTHER -> <<>>

To4(ip) == IF Len(ip) = 4 THEN ip ELSE <<>>

IPString(ip) ==
    CASE ip = <<>> -> "<nil>"
      [] ip = <<10, 1, 0, 1>> -> "10.1.0.1"
      [] ip = <<10, 2, 0, 1>> -> "10.2.0.1"
      [] ip = <<0, 0, 0, 0>> -> "0.0.0.0"
      [] OTHER -> "fe80::1"

----------------------------------------------------------------------------
(* Constants of the reconciler *)

familyAfInet == 2
rtTableMain == 254
protoBgp == 186
typeUnicast == 1
scopeGlobal == 0
defaultPriority == 170
routePriority == 50

\* Speaker.linuxRouteMetric: the configured update_fib_metric
linuxRouteMetric == defaultPriority

zeroPrefix == "0.0.0.0/0"

----------------------------------------------------------------------------
(* The kernel's handling of rtnetlink route requests.  A route is the      *)
(* RouteMessage a dump returns for it.                                     *)

\* The route a NEWROUTE message asks for: DstLength and Scope are left zero.
RouteOf(gateway, multipath) ==
    [family |-> familyAfInet, table |-> rtTableMain, protocol |-> protoBgp,
     type |-> typeUnicast, scope |-> 0, dstLength |-> 0,
     priority |-> linuxRouteMetric, gateway |-> gateway, multipath |-> multipath]

MinOf(S) == CHOOSE i \in S : \A j \in S : i <= j

\* The kernel keys an IPv4 route by table, prefix, tos and priority.
SameKey(r, m) ==
    /\ r.family = m.family
    /\ r.table = m.table
    /\ r.dstLength = m.dstLength
    /\ r.priority = m.priority

\* The route the kernel keeps for a NEWROUTE message, as a dump returns it: a
\* next-hop list of one entry is a route with one gateway, and is dumped
\* with the Gateway attribute and without the Multipath attribute.
KernelStores(m) ==
    IF Len(m.multipath) = 1
      THEN [m EXCEPT !.gateway = m.multipath[1], !.multipath = <<>>]
      ELSE m

\* NEWROUTE with Create|Replace: the first route with the message's key is
\* replaced, whatever its protocol; without one the route is added.  A route
\* that is already there is accepted only in first place, and a route with
\* neither gateway nor next hops is refused.
KernelReplace(table, m, execOk) ==
    LET new == KernelStores(m)
        keyed == {i \in DOMAIN table : SameKey(table[i], new)}
        exact == {i \in keyed : table[i] = new}
    IN  IF ~execOk \/ (m.gateway = <<>> /\ m.multipath = <<>>)
          THEN [kernel |-> table, failed |-> TRUE]
          ELSE IF keyed = {}
                 THEN [kernel |-> Append(table, new), failed |-> FALSE]
                 ELSE IF exact # {}
                        THEN [kernel |-> table, failed |-> MinOf(exact) # MinOf(keyed)]
                        ELSE [kernel |-> [table EXCEPT ![MinOf(keyed)] = new],
                              failed |-> FALSE]

Remove(table, i) == SubSeq(table, 1, i - 1) \o SubSeq(table, i + 1, Len(table))

\* DELROUTE: the first route matching the message's key, protocol, type and
\* scope is removed; without one the request fails.
KernelDelete(table, m, execOk) ==
    LET hit == {i \in DOMAIN table :
                    /\ SameKey(table[i], m)
                    /\ table[i].protocol = m.protocol
                    /\ table[i].type = m.type
                    /\ table[i].scope = m.scope}
    IN  IF ~execOk \/ hit = {}
          THEN [kernel |-> table, failed |-> TRUE]
          ELSE [kernel |-> Remove(table, MinOf(hit)), failed |-> FALSE]

----------------------------------------------------------------------------
(* Speaker.UpdateFIB *)

\* mutant: the priority is not compared
linuxRouteIsMine_AnyPriority(route) ==
    /\ route.protocol = protoBgp
    /\ route.dstLength = 0
    /\ route.table = rtTableMain
    /\ route.family = familyAfInet
    /\ route.type = typeUnicast
    /\ route.scope = scopeGlobal

linuxRouteIsMine(route) ==
    /\ route.protocol = protoBgp
    /\ route.dstLength = 0
    /\ route.table = rtTableMain
    /\ route.family = familyAfInet
    /\ route.type = typeUnicast
    /\ route.scope = scopeGlobal
    /\ route.priority = linuxRouteMetric

Mine(table) == {i \in DOMAIN table : linuxRouteIsMine(table[i])}

\* the index in the dump of the first route that is mine, 0 for nil
getLinuxBGPDefaultRoute(table) == IF Mine(table) = {} THEN 0 ELSE MinOf(Mine(table))

\* the NextHop attribute of a path, if it has one
nextHop(path) ==
    IF path.hasNextHop
      THEN [failed |-> FALSE, value |-> path.nextHop]
      ELSE [failed |-> TRUE, value |-> ""]

\* what a reconciler step did: the kernel afterwards, its error, the mutations sent
Outcome(table, err, ops) == [kernel |-> table, err |-> err, ops |-> ops]

Sent(op, m) == <<[op |-> op, msg |-> m]>>

\* mutant: the request is acknowledged and the table is left as it was
ExecuteReplace_Dropped(table, m, execOk) ==
    Outcome(table, "none", Sent("REPLACE", m))

\* sp.conn.Execute(routeMessage, newRoute, replaceFlags)
ExecuteReplace(table, m, execOk) ==
    LET k == KernelReplace(table, m, execOk)
    IN  Outcome(k.kernel, IF k.failed THEN "execute" ELSE "none", Sent("REPLACE", m))

setSinglePathRoute(path, table, dumpOk, execOk) ==
    LET nh == nextHop(path)
        old == getLinuxBGPDefaultRoute(table)
        gateway == To4(ParseIP(nh.value))
    IN  IF nh.failed THEN Outcome(table, "nexthop", <<>>)
        ELSE IF ~dumpOk THEN Outcome(table, "lookup", <<>>)
        ELSE IF old # 0 /\ IPString(table[old].gateway) = nh.value
               THEN Outcome(table, "none", <<>>)
        ELSE IF gateway = <<>> THEN Outcome(table, "notipv4", <<>>)
        ELSE ExecuteReplace(table, RouteOf(gateway, <<>>), execOk)

\* the keys of the map newNextHops
NewNextHops(paths) == {nextHop(paths[i]).value : i \in DOMAIN paths}

\* ranging over the map newNextHops visits its keys in the order iter gives them
InMapOrder(hops, iter) == SelectSeq(iter, LAMBDA h : h \in hops)

\* mutant: the lengths are not compared
setMultiPathRoute_NoCardinality(paths, table, dumpOk, execOk, iter) ==
    LET newNextHops == NewNextHops(paths)
        old == getLinuxBGPDefaultRoute(table)
        routesAreEqual ==
            \A i \in DOMAIN table[old].multipath :
                IPString(table[old].multipath[i]) \in newNextHops
        keys == InMapOrder(newNextHops, iter)
        nextHops == [i \in DOMAIN keys |-> To4(ParseIP(keys[i]))]
    IN  IF \E i \in DOMAIN paths : nextHop(paths[i]).failed
          THEN Outcome(table, "nexthop", <<>>)
        ELSE IF ~dumpOk THEN Outcome(table, "lookup", <<>>)
        ELSE IF /\ old # 0
                /\ table[old].multipath # <<>>
                /\ routesAreEqual
               THEN Outcome(table, "none", <<>>)
        ELSE IF \E i \in DOMAIN nextHops : nextHops[i] = <<>>
               THEN Outcome(table, "notipv4", <<>>)
        ELSE ExecuteReplace(table, RouteOf(<<>>, nextHops), execOk)

setMultiPathRoute(paths, table, dumpOk, execOk, iter) ==
    LET newNextHops == NewNextHops(paths)
        old == getLinuxBGPDefaultRoute(table)
        routesAreEqual ==
            \A i \in DOMAIN table[old].multipath :
                IPString(table[old].multipath[i]) \in newNextHops
        keys == InMapOrder(newNextHops, iter)
        nextHops == [i \in DOMAIN keys |-> To4(ParseIP(keys[i]))]
    IN  IF \E i \in DOMAIN paths : nextHop(paths[i]).failed
          THEN Outcome(table, "nexthop", <<>>)
        ELSE IF ~dumpOk THEN Outcome(table, "lookup", <<>>)
        ELSE IF /\ old # 0
                /\ table[old].multipath # <<>>
                /\ Len(table[old].multipath) = Cardinality(newNextHops)
                /\ routesAreEqual
               THEN Outcome(table, "none", <<>>)
        ELSE IF \E i \in DOMAIN nextHops : nextHops[i] = <<>>
               THEN Outcome(table, "notipv4", <<>>)
        ELSE ExecuteReplace(table, RouteOf(<<>>, nextHops), execOk)

\* mutant: every destination of the stream is taken for a default route
DefaultRoutes_AllDestinations(dests) == dests

\* the destinations the ListPath callback keeps
DefaultRoutes(dests) == SelectSeq(dests, LAMBDA d : d.prefix = zeroPrefix)

\* mutant: with several default destinations the first one is installed
setDefaultRoute_FirstOfSeveral(dests, table, listOk, dumpOk, execOk, iter) ==
    LET defaultRoutes == DefaultRoutes(dests)
    IN  IF ~listOk THEN Outcome(table, "listpath", <<>>)
        ELSE IF Len(defaultRoutes) = 0 THEN Outcome(table, "none", <<>>)
        ELSE IF Len(defaultRoutes[1].paths) = 1
               THEN setSinglePathRoute(defaultRoutes[1].paths[1], table, dumpOk, execOk)
               ELSE setMultiPathRoute(defaultRoutes[1].paths, table, dumpOk, execOk, iter)

\* mutant: a single path takes the multi-path branch too
setDefaultRoute_AlwaysMultiPath(dests, table, listOk, dumpOk, execOk, iter) ==
    LET defaultRoutes == DefaultRoutes(dests)
    IN  IF ~listOk THEN Outcome(table, "listpath", <<>>)
        ELSE IF Len(defaultRoutes) = 0 THEN Outcome(table, "none", <<>>)
        ELSE IF Len(defaultRoutes) > 1 THEN Outcome(table, "unsupported", <<>>)
        ELSE setMultiPathRoute(defaultRoutes[1].paths, table, dumpOk, execOk,
                               IF Len(defaultRoutes[1].paths) = 1
                                 THEN <<defaultRoutes[1].paths[1].nextHop>>
                                 ELSE iter)

setDefaultRoute(dests, table, listOk, dumpOk, execOk, iter) ==
    LET defaultRoutes == DefaultRoutes(dests)
    IN  IF ~listOk THEN Outcome(table, "listpath", <<>>)
        ELSE IF Len(defaultRoutes) = 0 THEN Outcome(table, "none", <<>>)
        ELSE IF Len(defaultRoutes) > 1 THEN Outcome(table, "unsupported", <<>>)
        ELSE IF Len(defaultRoutes[1].paths) = 1
               THEN setSinglePathRoute(defaultRoutes[1].paths[1], table, dumpOk, execOk)
               ELSE setMultiPathRoute(defaultRoutes[1].paths, table, dumpOk, execOk, iter)

cleanupDefaultRoute(table, dumpOk, execOk) ==
    LET routeMessage == RouteOf(<<>>, <<>>)
        old == getLinuxBGPDefaultRoute(table)
        k == KernelDelete(table, routeMessage, execOk)
    IN  IF ~dumpOk THEN Outcome(table, "lookup", <<>>)
        ELSE IF old # 0
               THEN Outcome(k.kernel, IF k.failed THEN "execute" ELSE "none",
                            Sent("DELETE", routeMessage))
        ELSE Outcome(table, "none", <<>>)

\* observer: a reconciler step with what it saw (the RIB, the kernel table,
\* whether its ListPath, dump and mutation calls worked) and what it did
FibStep(step, r, dests, table, listOk, dumpOk, execOk) ==
    [step |-> step, err |-> r.err, ops |-> r.ops, dests |-> dests, before |-> table,
     listOk |-> listOk, dumpOk |-> dumpOk, execOk |-> execOk]

NoFibStep == FibStep("none", Outcome(<<>>, "none", <<>>), <<>>, <<>>, TRUE, TRUE, TRUE)

\* the orders in which a Go map with the keys hops can be ranged
MapOrders(hops) ==
    {iter \in [1..Cardinality(hops) -> hops] :
        \A i, j \in DOMAIN iter : i # j => iter[i] # iter[j]}

\* the keys of the map a tick over the RIB dests ranges (none outside the
\* multi-path branch)
RangedHops(dests) ==
    IF Len(DefaultRoutes(dests)) = 1 /\ Len(DefaultRoutes(dests)[1].paths) # 1
      THEN NewNextHops(DefaultRoutes(dests)[1].paths)
      ELSE {}

\* a step ends at the first call that fails: ListPath, the dump of the
\* kernel table, or the execution of the mutation
TickFailures == {"none", "listpath", "dump", "execute"}
CleanupFailures == {"none", "dump", "execute"}

\* rtnetlink.Dial opens the netlink socket; a task of the error group that
\* returns an error cancels the group's context
FIBStart(ok) ==
    /\ fibPc = "idle"
    /\ runPc = "wait"
    /\ IF ok
         THEN fibPc' = "loop" /\ UNCHANGED <<fibErr, cancelled>>
         ELSE fibPc' = "returned" /\ fibErr' = "dial" /\ cancelled' = TRUE
    /\ UNCHANGED <<kernel, rib, lastFib>>
    /\ UNCHANGED <<healthCheckURL, policy, decision, runPc, runErr, bgp, anycastPresent, startupAdvertises,
                   engineOps, stopCalls>>
    /\ UNCHANGED hcVars

\* the ticker case of UpdateFIB: the error of setDefaultRoute is logged
FIBTick(listOk, dumpOk, execOk, iter) ==
    /\ fibPc = "loop"
    /\ LET r == setDefaultRoute(rib, kernel, listOk, dumpOk, execOk, iter)
       IN  /\ kernel' = r.kernel
           /\ lastFib' = FibStep("tick", r, rib, kernel, listOk, dumpOk, execOk)
    /\ UNCHANGED <<fibPc, fibErr, rib>>
    /\ UNCHANGED supVars
    /\ UNCHANGED hcVars

\* mutant: the loop goes on after the cleanup
FIBExit_KeepsLooping(dumpOk, execOk) ==
    /\ fibPc = "loop"
    /\ cancelled
    /\ LET r == cleanupDefaultRoute(kernel, dumpOk, execOk)
       IN  /\ kernel' = r.kernel
           /\ lastFib' = FibStep("cleanup", r, rib, kernel, TRUE, dumpOk, execOk)
    /\ UNCHANGED <<fibPc, fibErr, rib>>
    /\ UNCHANGED supVars
    /\ UNCHANGED hcVars

\* the ctx.Done case of UpdateFIB
FIBExit(dumpOk, execOk) ==
    /\ fibPc = "loop"
    /\ cancelled
    /\ LET r == cleanupDefaultRoute(kernel, dumpOk, execOk)
       IN  /\ kernel' = r.kernel
           /\ fibErr' = r.err
           /\ lastFib' = FibStep("cleanup", r, rib, kernel, TRUE, dumpOk, execOk)
    /\ fibPc' = "returned"
    /\ UNCHANGED rib
    /\ UNCHANGED supVars
    /\ UNCHANGED hcVars

----------------------------------------------------------------------------
(* The surroundings of the reconciler: the RIB the peers fill, and the     *)
(* routes the kernel holds when the reconciler starts.                     *)

PathVia(nh) == [hasNextHop |-> TRUE, nextHop |-> nh]
PathNoNextHop == [hasNextHop |-> FALSE, nextHop |-> ""]

PathLists ==
    {<<>>,
     <<PathVia("10.1.0.1")>>,
     <<PathVia("10.2.0.1")>>,
     <<PathVia("10.1.0.1"), PathVia("10.2.0.1")>>,
     <<PathVia("10.1.0.1"), PathVia("10.1.0.1")>>,
     <<PathVia("fe80::1")>>,
     <<PathVia("10.1.0.1"), PathVia("fe80::1")>>,
     <<PathNoNextHop>>,
     <<PathVia("10.1.0.1"), PathNoNextHop>>}

AnycastDest == [prefix |-> AnycastPrefix, paths |-> <<PathVia("0.0.0.0")>>]
DefaultDest(paths) == [prefix |-> zeroPrefix, paths |-> paths]

\* what the peers can have the global table hold for 0.0.0.0/0
DefaultSets ==
    {<<>>}
    \cup {<<DefaultDest(p)>> : p \in PathLists}
    \cup {<<DefaultDest(<<PathVia("10.1.0.1")>>), DefaultDest(<<PathVia("10.2.0.1")>>)>>}

\* the global table: the anycast path if advertised, then what the peers sent
RibValues == {own \o d : own \in {<<>>, <<AnycastDest>>}, d \in DefaultSets}

\* the destinations of a table that are not for 0.0.0.0/0
NotDefault(table) == SelectSeq(table, LAMBDA d : d.prefix # zeroPrefix)

\* the peers change what the global table holds for 0.0.0.0/0
RibChange(r) ==
    /\ fibPc = "loop"
    /\ r # rib
    /\ NotDefault(r) = NotDefault(rib)
    /\ rib' = r
    /\ UNCHANGED <<fibPc, fibErr, kernel, lastFib>>
    /\ UNCHANGED supVars
    /\ UNCHANGED hcVars

IPA == <<10, 1, 0, 1>>
IPB == <<10, 2, 0, 1>>

\* routes found in the kernel at start: left by an earlier run (mine), a
\* static default with the same metric, and the default route the fib
\* command of this program installs (metric routePriority)
StartRoutes ==
    {RouteOf(IPA, <<>>),
     RouteOf(<<>>, <<IPA, IPB>>),
     RouteOf(<<>>, <<IPB, IPA>>),
     RouteOf(<<>>, <<IPA, IPA>>),
     [RouteOf(IPB, <<>>) EXCEPT !.protocol = 4],
     [RouteOf(IPA, <<>>) EXCEPT !.priority = routePriority]}

StartKernels ==
    UNION {{k \in [1..n -> StartRoutes] :
               /\ \A i, j \in 1..n : i # j => k[i] # k[j]
               /\ Cardinality(Mine(k)) <= 1} : n \in 0..MaxKernelRoutes}

\* the engine requests of a setup that worked with an empty health_check_url
SetupOps ==
    <<[op |-> "start", ok |-> TRUE], [op |-> "install_policy", ok |-> TRUE],
      [op |-> "add_peers", ok |-> TRUE], [op |-> "advertise", ok |-> TRUE]>>

\* the reconciler about to start beside a health checker whose gate is disabled
InitFIB ==
    /\ healthCheckURL = ""
    /\ runPc = "wait"
    /\ runErr = "none"
    /\ cancelled = FALSE
    /\ bgp = "started"
    /\ policy = InstalledPolicy
    /\ decision = NoDecision
    /\ anycastPresent = TRUE
    /\ hcPc = "blocked"
    /\ status = Unhealthy
    /\ okCounter = 0
    /\ hist = <<>>
    /\ lastCb = [name |-> "none", ok |-> FALSE]
    /\ lastOkCb = "none"
    /\ retryDue = FALSE
    /\ startupAdvertises = 1
    /\ everProbed = FALSE
    /\ engineOps = SetupOps
    /\ stopCalls = <<>>
    /\ fibPc = "idle"
    /\ fibErr = "none"
    /\ kernel \in StartKernels
    /\ rib \in {r \in RibValues : HasDest(r, AnycastPrefix)}
    /\ lastFib = NoFibStep

NextFIB ==
    \/ \E ok \in BOOLEAN : FIBStart(ok)
    \/ \E fail \in TickFailures, iter \in MapOrders(RangedHops(rib)) :
          FIBTick(fail # "listpath", fail # "dump", fail # "execute", iter)
    \/ \E fail \in CleanupFailures : FIBExit(fail # "dump", fail # "execute")
    \/ \E r \in RibValues : RibChange(r)
    \/ Signal

SpecFIB == InitFIB /\ [][NextFIB]_vars

----------------------------------------------------------------------------

Init ==
    /\ healthCheckURL \in RawURLs
    /\ runPc = "setup_start"
    /\ runErr = "none"
    /\ cancelled = FALSE
    /\ bgp = "created"
    /\ policy = NoPolicy
    /\ decision = NoDecision
    /\ anycastPresent = FALSE
    /\ hcPc = "idle"
    /\ status = Unhealthy
    /\ okCounter = 0
    /\ hist = <<>>
    /\ lastCb = [name |-> "none", ok |-> FALSE]
    /\ lastOkCb = "none"
    /\ retryDue = FALSE
    /\ startupAdvertises = 0
    /\ everProbed = FALSE
    /\ engineOps = <<>>
    /\ stopCalls = <<>>
    /\ fibPc = "off"
    /\ fibErr = "none"
    /\ kernel = <<>>
    /\ rib = <<>>
    /\ lastFib = NoFibStep

Next ==
    \/ \E ok \in BOOLEAN : StartBgp(ok)
    \/ \E done \in 0..Len(PolicyRequests) : SetupPolicies(done)
    \/ \E ok \in BOOLEAN : AddNeighbors(ok)
    \/ \E ok \in BOOLEAN : SetupAdvertise(ok)
    \/ Spawn
    \/ Wait
    \/ \E ok \in BOOLEAN : StopBgp(ok)
    \/ Signal
    \/ \E probeOk \in BOOLEAN, cbOk \in BOOLEAN : HCTick(probeOk, cbOk)
    \/ HCExit

Spec == Init /\ [][Next]_vars

----------------------------------------------------------------------------
(* The whole program: startup, both tasks of the error group, shutdown.    *)

\* the kernel tables the whole program is run against: an empty main table,
\* or a static default in front of a route left by an earlier run
RunKernels ==
    {<<>>, <<[RouteOf(IPB, <<>>) EXCEPT !.protocol = 4], RouteOf(IPA, <<>>)>>}

\* the global table once the peers have announced one default path
RunRibs == {own \o <<DefaultDest(<<PathVia("10.2.0.1")>>)>> : own \in {<<>>, <<AnycastDest>>}}

InitRun ==
    /\ healthCheckURL \in RawURLs
    /\ runPc = "setup_start"
    /\ runErr = "none"
    /\ cancelled = FALSE
    /\ bgp = "created"
    /\ policy = NoPolicy
    /\ decision = NoDecision
    /\ anycastPresent = FALSE
    /\ hcPc = "idle"
    /\ status = Unhealthy
    /\ okCounter = 0
    /\ hist = <<>>
    /\ lastCb = [name |-> "none", ok |-> FALSE]
    /\ lastOkCb = "none"
    /\ retryDue = FALSE
    /\ startupAdvertises = 0
    /\ everProbed = FALSE
    /\ engineOps = <<>>
    /\ stopCalls = <<>>
    /\ fibPc \in {"off", "configured"}
    /\ fibErr = "none"
    /\ kernel \in RunKernels
    /\ rib = <<>>
    /\ lastFib = NoFibStep

\* the steps of Speaker.Run itself
RunStep ==
    \/ \E ok \in BOOLEAN : StartBgp(ok)
    \/ \E done \in 0..Len(PolicyRequests) : SetupPolicies(done)
    \/ \E ok \in BOOLEAN : AddNeighbors(ok)
    \/ \E ok \in BOOLEAN : SetupAdvertise(ok)
    \/ Spawn
    \/ Wait
    \/ \E ok \in BOOLEAN : StopBgp(ok)

FIBDial == \E ok \in BOOLEAN : FIBStart(ok)

FIBDone == \E fail \in CleanupFailures : FIBExit(fail # "dump", fail # "execute")

NextRun ==
    \/ RunStep
    \/ Signal
    \/ \E probeOk \in BOOLEAN, cbOk \in BOOLEAN : HCTick(probeOk, cbOk)
    \/ HCExit
    \/ FIBDial
    \/ \E fail \in TickFailures, iter \in MapOrders(RangedHops(rib)) :
          FIBTick(fail # "listpath", fail # "dump", fail # "execute", iter)
    \/ FIBDone
    \/ \E r \in RunRibs : RibChange(r)

\* Scheduling: a goroutine that can run does run, and a select whose
\* ctx.Done() case is ready takes it sooner or later.
FairRun ==
    /\ WF_vars(RunStep)
    /\ WF_vars(HCExit)
    /\ WF_vars(FIBDial)
    /\ WF_vars(FIBDone)

SpecRun == InitRun /\ [][NextRun]_vars /\ FairRun

----------------------------------------------------------------------------
(* The policies at work: the peers send paths and are sent the table's *)

\* the path a peer sends for a prefix: its next hop is the peer
PeerPath(nbr, nlri) == [nlri |-> nlri, origin |-> "IGP", nextHop |-> nbr]

\* where a streamed path came from
SourceOf(sp) == IF sp.nextHop = anycastPath.nextHop THEN "local" ELSE sp.nextHop

PeersUp == bgp = "started" /\ runPc \in {"setup_advertise", "spawn"}

\* a configured peer sends a path: the global import policy decides whether
\* the table takes it
PeerUpdate(nbr, nlri) ==
    /\ PeersUp
    /\ LET verdict == ApplyPolicy(policy, "import", nlri, nbr, "none")
       IN /\ decision' = [direction |-> "import", nlri |-> nlri, source |-> nbr,
                          target |-> "none", verdict |-> verdict]
          /\ rib' = IF verdict = accept
                      THEN EngineAddPath(rib, PeerPath(nbr, nlri))
                      ELSE EngineDeletePath(rib, PeerPath(nbr, nlri))
    /\ UNCHANGED <<healthCheckURL, policy, runPc, runErr, cancelled, bgp, anycastPresent,
                   startupAdvertises, engineOps, stopCalls>>
    /\ UNCHANGED hcVars
    /\ UNCHANGED <<fibPc, fibErr, kernel, lastFib>>

\* a path of the table is to be sent to a configured peer: the global export
\* policy decides whether it goes
ExportPath(i, j, nbr) ==
    /\ PeersUp
    /\ i \in DOMAIN rib
    /\ j \in DOMAIN rib[i].paths
    /\ decision' = [direction |-> "export", nlri |-> rib[i].prefix,
                    source |-> SourceOf(rib[i].paths[j]), target |-> nbr,
                    verdict |-> ApplyPolicy(policy, "export", rib[i].prefix,
                                            SourceOf(rib[i].paths[j]), nbr)]
    /\ UNCHANGED <<healthCheckURL, policy, runPc, runErr, cancelled, bgp, anycastPresent,
                   startupAdvertises, engineOps, stopCalls>>
    /\ UNCHANGED hcVars
    /\ UNCHANGED fibVars

NextPolicy ==
    \/ \E ok \in BOOLEAN : StartBgp(ok)
    \/ \E done \in 0..Len(PolicyRequests) : SetupPolicies(done)
    \/ \E ok \in BOOLEAN : AddNeighbors(ok)
    \/ \E ok \in BOOLEAN : SetupAdvertise(ok)
    \/ \E nbr \in Neighbors, nlri \in TriedPrefixes : PeerUpdate(nbr, nlri)
    \/ \E i \in 1..2, j \in 1..3, nbr \in Neighbors : ExportPath(i, j, nbr)

SpecPolicy == Init /\ [][NextPolicy]_vars

----------------------------------------------------------------------------
(* Claims about the health checker and the advertisement gate *)

Ticked == hist # <<>>

\* startup has completed and the engine has not been stopped yet
Running == runPc \in {"spawn", "wait", "stop"}

\* C1: whenever on_healthy is invoked, the current probe and the two probes
\* immediately before it all succeeded.
C1_AdvertiseOnlyAfterConsecutiveSuccesses ==
    (Ticked /\ hist[1].cb = "healthy") =>
        /\ Len(hist) >= healthyThreshold
        /\ \A i \in 1..healthyThreshold : hist[i].probe

\* C2: a probe success while Unhealthy increments the counter and invokes
\* on_healthy on that same tick iff the incremented count is >= 3; three
\* all-successful ticks from count 0 end Healthy, advertised on the 3rd.
C2_ThresholdOnIncrementedCount ==
    /\ (Ticked /\ hist[1].status = Unhealthy /\ hist[1].probe) =>
          (hist[1].cb = "healthy" <=> hist[1].count + 1 >= healthyThreshold)
    /\ (/\ Len(hist) >= healthyThreshold
        /\ hist[healthyThreshold].status = Unhealthy
        /\ hist[healthyThreshold].count = 0
        /\ \A i \in 1..healthyThreshold :
              hist[i].probe /\ (hist[i].cb # "none" => hist[i].cbOk)) =>
          (hist[1].cb = "healthy" /\ status = Healthy)

\* C3: a failed probe while Healthy invokes on_unhealthy on that tick; when
\* the callback succeeds the status is Unhealthy and the counter 0 afterwards.
C3_WithdrawOnFirstFailure ==
    (Ticked /\ hist[1].status = Healthy /\ ~hist[1].probe) =>
        /\ hist[1].cb = "unhealthy"
        /\ hist[1].cbOk => (status = Unhealthy /\ okCounter = 0)

C3_Witness ==
    /\ Ticked
    /\ hist[1].status = Healthy
    /\ ~hist[1].probe
    /\ hist[1].cb = "unhealthy"
    /\ hist[1].cbOk
    /\ status = Unhealthy

\* C4 as stated: after startup the anycast path is present iff (the URL is
\* empty and startup completed) or (the last executed callback was on_healthy
\* and it succeeded).
C4_PresentIffLastExecutedCallback ==
    Running =>
        (anycastPresent <=>
            \/ healthCheckURL = ""
            \/ (lastCb.name = "healthy" /\ lastCb.ok))

\* C4 amended: after startup the anycast path is present iff (the URL is
\* empty and startup completed) or (the last callback that succeeded was
\* on_healthy).
C4_PresentIffLastSuccessfulCallback ==
    Running =>
        (anycastPresent <=>
            \/ healthCheckURL = ""
            \/ lastOkCb = "healthy")

C4_Witness ==
    /\ Running
    /\ lastCb = [name |-> "unhealthy", ok |-> FALSE]
    /\ lastOkCb = "healthy"
    /\ anycastPresent

\* C5: the counter is 0 after every tick whose probe failed and after every
\* successful Healthy->Unhealthy transition.
C5_CounterZeroAfterFailure ==
    (Ticked /\ (~hist[1].probe \/ (hist[1].cb = "unhealthy" /\ hist[1].cbOk))) =>
        okCounter = 0

\* C6 as stated: a positive counter implies status Unhealthy.
C6_PositiveCounterImpliesUnhealthy ==
    okCounter > 0 => status = Unhealthy

\* C6 amended: a positive counter below the threshold implies status
\* Unhealthy; while Healthy the counter equals the threshold.
C6_HealthyCounterAtThreshold ==
    /\ (okCounter > 0 /\ okCounter < healthyThreshold) => status = Unhealthy
    /\ status = Healthy => okCounter = healthyThreshold

C6_Witness ==
    /\ status = Healthy
    /\ okCounter = healthyThreshold

\* C7: a failed on_healthy leaves the status Unhealthy and the counter as it
\* was, and the next tick whose probe succeeds invokes on_healthy again.
C7_AdvertiseRetried ==
    /\ (Ticked /\ hist[1].cb = "healthy" /\ ~hist[1].cbOk) =>
          (status = Unhealthy /\ okCounter = hist[1].count)
    /\ (Ticked /\ hist[1].retry /\ hist[1].probe) => hist[1].cb = "healthy"

C7_Witness ==
    /\ Len(hist) >= 2
    /\ hist[1].retry
    /\ hist[1].probe
    /\ hist[1].cb = "healthy"
    /\ ~hist[2].probe

FailedWithdraw(rec) == rec.cb = "unhealthy" /\ ~rec.cbOk

\* C8 as stated: a failed on_unhealthy leaves the status Healthy and the
\* counter as it was, and the next tick invokes on_unhealthy again.
C8_WithdrawRetriedNextTick ==
    /\ (Ticked /\ FailedWithdraw(hist[1])) =>
          (status = Healthy /\ okCounter = hist[1].count)
    /\ (Len(hist) >= 2 /\ FailedWithdraw(hist[2])) => hist[1].cb = "unhealthy"

\* C8 amended: a failed on_unhealthy leaves the status Healthy and the counter
\* as it was, and the next tick invokes on_unhealthy again if its probe fails.
C8_WithdrawRetriedOnNextFailure ==
    /\ (Ticked /\ FailedWithdraw(hist[1])) =>
          (status = Healthy /\ okCounter = hist[1].count)
    /\ (Len(hist) >= 2 /\ FailedWithdraw(hist[2]) /\ ~hist[1].probe) =>
          hist[1].cb = "unhealthy"

C8_Witness ==
    /\ Len(hist) >= 2
    /\ FailedWithdraw(hist[2])
    /\ ~hist[1].probe
    /\ hist[1].cb = "unhealthy"

\* C9: with an empty URL, setup advertises exactly once, the health checker
\* makes no probe, invokes no callback and returns only after cancellation,
\* and the path stays in the engine while the process runs.
C9_GateDisabled ==
    healthCheckURL = "" =>
        /\ startupAdvertises <= 1
        /\ runPc \in {"spawn", "wait", "stop"} => startupAdvertises = 1
        /\ ~everProbed
        /\ lastCb.name = "none"
        /\ hcPc \in {"idle", "blocked", "returned"}
        /\ hcPc = "returned" => cancelled
        /\ Running => anycastPresent

C9_Witness ==
    /\ healthCheckURL = ""
    /\ hcPc = "blocked"
    /\ startupAdvertises = 1
    /\ anycastPresent

----------------------------------------------------------------------------
(* Claims about the reconciler *)

\* C10: starting from a kernel with at most one route that is mine, no
\* sequence of reconciler ticks and shutdown cleanup leaves more than one.
C10_AtMostOneOurs ==
    Cardinality(Mine(kernel)) <= 1

\* the gateways of a route as the reconciler prints them
GatewaysOf(route) ==
    IF route.multipath # <<>>
      THEN {IPString(route.multipath[i]) : i \in DOMAIN route.multipath}
      ELSE IF route.gateway # <<>> THEN {IPString(route.gateway)} ELSE {}

\* the tick before this state saw exactly one destination for 0.0.0.0/0
SawOneDefault == lastFib.step = "tick" /\ lastFib.listOk /\ Len(DefaultRoutes(lastFib.dests)) = 1

\* its paths, and the set of their next hops
SeenPaths == DefaultRoutes(lastFib.dests)[1].paths
SeenHops == NewNextHops(SeenPaths)

\* the route getLinuxBGPDefaultRoute finds in a table that holds one
OursIn(table) == table[getLinuxBGPDefaultRoute(table)]

HopCount(route) == IF route.multipath # <<>> THEN Len(route.multipath) ELSE 1

\* the tick before this state found the RIB default and the route that is
\* mine in agreement: as many next hops, and the same gateways
SawAgreement ==
    /\ SawOneDefault
    /\ \A i \in DOMAIN SeenPaths : SeenPaths[i].hasNextHop
    /\ Mine(lastFib.before) # {}
    /\ HopCount(OursIn(lastFib.before)) = Cardinality(SeenHops)
    /\ GatewaysOf(OursIn(lastFib.before)) = SeenHops

\* C12: a tick on which the RIB default and the route that is mine agree
\* (same cardinality, equal gateway set) sends no netlink mutation, whether
\* the default has one path, several paths with distinct next hops, or
\* several paths that share a next hop.
C12_NoMutationWhenAgreed ==
    SawAgreement => lastFib.ops = <<>>

\* the routes of a table that are not mine, in dump order
Foreign(table) == SelectSeq(table, LAMBDA r : ~linuxRouteIsMine(r))

\* C13: no tick and no shutdown cleanup creates, replaces or deletes a route
\* that fails linuxRouteIsMine: after every reconciler step the routes that
\* are not mine are those the kernel held before the step.
C13_ForeignRoutesUntouched ==
    lastFib.step # "none" => Foreign(kernel) = Foreign(lastFib.before)

\* the tick before this state could not use the RIB: ListPath failed, or
\* it returned no destination for 0.0.0.0/0, or more than one
RibNotUsable ==
    /\ lastFib.step = "tick"
    /\ ~lastFib.listOk \/ Len(DefaultRoutes(lastFib.dests)) # 1

\* C14: a tick on which ListPath fails or returns zero or several
\* destinations for 0.0.0.0/0 sends no netlink mutation and leaves the kernel
\* table as it was, the loop goes on, and the tick ends with an error exactly
\* in the ListPath and the several-destinations cases.
C14_RibNotUsable ==
    RibNotUsable =>
        /\ lastFib.ops = <<>>
        /\ kernel = lastFib.before
        /\ fibPc = "loop"
        /\ lastFib.err = IF ~lastFib.listOk THEN "listpath"
                         ELSE IF Len(DefaultRoutes(lastFib.dests)) = 0 THEN "none"
                         ELSE "unsupported"

\* a tick saw two default destinations and left the route that is mine alone
C14_Witness ==
    /\ RibNotUsable
    /\ lastFib.listOk
    /\ Len(DefaultRoutes(lastFib.dests)) > 1
    /\ Mine(kernel) # {}

\* the tick before this state met one of the errors of the FIB side: a path
\* without NextHop attribute, a next hop that is not IPv4, a failed dump of
\* the kernel table, or a mutation that failed
SawFibError ==
    /\ SawOneDefault
    /\ \/ \E i \in DOMAIN SeenPaths : ~SeenPaths[i].hasNextHop
       \/ \E h \in SeenHops : To4(ParseIP(h)) = <<>>
       \/ ~lastFib.dumpOk
       \/ ~lastFib.execOk /\ lastFib.ops # <<>>

\* C15: a tick that meets a next hop that is not IPv4 (alone or among
\* several), a path without NextHop attribute, a failed dump or a failed
\* execute ends with an error, leaves the kernel table as it was, sends no
\* REPLACE except the one whose execution failed, and the loop goes on.
C15_FibErrors ==
    SawFibError =>
        /\ lastFib.err # "none"
        /\ kernel = lastFib.before
        /\ lastFib.ops # <<>> => ~lastFib.execOk
        /\ fibPc = "loop"

\* the tick before this state read one RIB default whose paths all carry an
\* IPv4 next hop, and read a kernel table holding a route that is mine
SawUsableDefault ==
    /\ SawOneDefault
    /\ lastFib.dumpOk
    /\ \A i \in DOMAIN SeenPaths : SeenPaths[i].hasNextHop
    /\ \A h \in SeenHops : To4(ParseIP(h)) # <<>>
    /\ Mine(lastFib.before) # {}

SentReplace == \E i \in DOMAIN lastFib.ops : lastFib.ops[i].op = "REPLACE"

\* C16: a tick whose reads worked sends a REPLACE when the RIB default has
\* one path and the route that is mine is in multipath form, when the RIB
\* default has several next hops and the route has no multipath list, and
\* when the length of the route's multipath list differs from the number of
\* next hops; a multipath list holding exactly the new next hops, in either
\* order, is left alone.
C16_FormChangesRewrite ==
    SawUsableDefault =>
        LET old == OursIn(lastFib.before)
        IN  /\ (Len(SeenPaths) = 1 /\ old.multipath # <<>>) => SentReplace
            /\ (Cardinality(SeenHops) > 1 /\ old.multipath = <<>>) => SentReplace
            /\ (Len(SeenPaths) # 1 /\ old.multipath # <<>>
                    /\ Len(old.multipath) # Cardinality(SeenHops)) => SentReplace
            /\ (Len(SeenPaths) # 1 /\ Len(old.multipath) = Cardinality(SeenHops)
                    /\ GatewaysOf(old) = SeenHops /\ old.multipath # <<>>) => ~SentReplace

\* a tick saw one path, found the route that is mine in multipath form, and
\* replaced it by a route with one gateway
C16_Witness ==
    /\ SawUsableDefault
    /\ Len(SeenPaths) = 1
    /\ OursIn(lastFib.before).multipath # <<>>
    /\ SentReplace
    /\ Mine(kernel) # {}
    /\ OursIn(kernel).multipath = <<>>
    /\ GatewaysOf(OursIn(kernel)) = SeenHops

\* the tick before this state read one RIB default with at least one path
\* and only IPv4 next hops, and all its calls succeeded
SawGoodTick ==
    /\ SawOneDefault
    /\ lastFib.dumpOk /\ lastFib.execOk
    /\ lastFib.err = "none"
    /\ SeenPaths # <<>>
    /\ \A i \in DOMAIN SeenPaths : SeenPaths[i].hasNextHop
    /\ \A h \in SeenHops : To4(ParseIP(h)) # <<>>

\* C17: once a tick has read a RIB default with IPv4 next hops and its
\* netlink calls have succeeded, the route that is mine has exactly those
\* next hops (one gateway for one path, a multipath list for several distinct
\* next hops), and a further tick over the same RIB whose calls succeed
\* sends no mutation.
C17_ConvergesWithinOneTick ==
    SawGoodTick =>
        /\ Mine(kernel) # {}
        /\ GatewaysOf(OursIn(kernel)) = SeenHops
        /\ Len(SeenPaths) = 1 => OursIn(kernel).multipath = <<>>
        /\ Cardinality(SeenHops) > 1 => OursIn(kernel).multipath # <<>>
        /\ \A iter \in MapOrders(RangedHops(lastFib.dests)) :
              setDefaultRoute(lastFib.dests, kernel, TRUE, TRUE, TRUE, iter).ops = <<>>

----------------------------------------------------------------------------
(* Claims about startup and shutdown *)

\* C18: the cleanup on cancellation looks up the route that is mine; with
\* one present it sends exactly one DELETE and, the DELETE done, no route that
\* is mine is left; with none present it sends nothing; the error of the
\* lookup or of the DELETE is what UpdateFIB returns and what Run gets from
\* the group, and Run stops the engine all the same.
C18_ShutdownCleanup ==
    lastFib.step = "cleanup" =>
        /\ (lastFib.dumpOk /\ Mine(lastFib.before) # {}) =>
              /\ Len(lastFib.ops) = 1
              /\ lastFib.ops[1].op = "DELETE"
              /\ lastFib.err = "none" => Mine(kernel) = {}
        /\ (lastFib.dumpOk /\ Mine(lastFib.before) = {}) =>
              /\ lastFib.ops = <<>>
              /\ kernel = lastFib.before
        /\ ~lastFib.dumpOk => lastFib.err = "lookup" /\ lastFib.ops = <<>>
        /\ fibPc = "returned"
        /\ fibErr = lastFib.err
        /\ runPc \in {"stop", "returned"} => runErr = fibErr
        /\ runPc = "returned" => bgp = "stopped"

\* both tasks of the error group are over (or were never started)
TasksOver == hcPc \in {"idle", "returned"} /\ fibPc \in {"off", "configured", "returned"}

\* C19: once the context is cancelled, the health checker returns (with nil:
\* the error of the group is the reconciler's, if any), the reconciler returns
\* after its one cleanup, Run then stops the engine and returns; no task goes
\* on ticking forever.
C19_ShutdownTerminates ==
    /\ cancelled ~> (runPc = "returned" /\ TasksOver /\ bgp = "stopped")
    /\ [](runPc \in {"stop", "returned"} => TasksOver)
    /\ []((runPc \in {"stop", "returned"} /\ hcPc = "returned") => runErr = fibErr)
    /\ []((fibPc = "returned" /\ fibErr # "dial") => lastFib.step = "cleanup")
    /\ [](runPc = "returned" => bgp = "stopped")

\* a signal ended a run in which both tasks had been ticking
C19_Witness ==
    /\ cancelled
    /\ runPc = "returned"
    /\ bgp = "stopped"
    /\ hcPc = "returned"
    /\ everProbed
    /\ fibPc = "returned"
    /\ lastFib.step = "cleanup"
    /\ \E i \in DOMAIN lastFib.ops : lastFib.ops[i].op = "DELETE"

\* the order of the engine requests of a startup
StartupOrder == <<"start", "install_policy", "add_peers", "advertise">>

SetupFailed == \E i \in DOMAIN engineOps : ~engineOps[i].ok

\* C20: the engine requests of startup are made in the order start,
\* install_policy, add_peers, advertise, the last one only with the gate
\* disabled; after a request that failed no further one is made, neither the
\* health checker nor the reconciler is ever started, the engine is stopped
\* and Run returns the error of the setup.
C20_StartupOrder ==
    /\ Len(engineOps) <= Len(StartupOrder)
    /\ \A i \in DOMAIN engineOps : engineOps[i].op = StartupOrder[i]
    /\ \A i \in DOMAIN engineOps : i < Len(engineOps) => engineOps[i].ok
    /\ Len(engineOps) = Len(StartupOrder) => RunBlocks(healthCheckURL)
    /\ (runPc \notin {"setup_start", "setup_policy", "setup_peers"} /\ ~SetupFailed) =>
          Len(engineOps) >= 3
    /\ SetupFailed =>
          /\ runPc = "returned"
          /\ runErr = "setup"
          /\ bgp = "stopped"
          /\ hcPc = "idle" /\ ~everProbed
          /\ fibPc \in {"off", "configured"} /\ lastFib = NoFibStep

\* adding the peers failed with the reconciler configured
C20_Witness ==
    /\ Len(engineOps) = 3
    /\ ~engineOps[3].ok
    /\ runPc = "returned"
    /\ runErr = "setup"
    /\ bgp = "stopped"
    /\ fibPc = "configured"

\* Run got past the setup and the creation of the health checker
GroupRan == runErr \notin {"setup", "healthcheck"}

\* C21: a task that returns an error cancels the context of the group, and
\* the other task then returns; once all tasks have returned stopBgp is
\* called exactly once, with a context that is not done; Run returns the
\* error of the group, nil (exit status 0) when no task returned one,
\* whatever stopBgp returned.
C21_ErrorGroup ==
    /\ []((fibPc = "returned" /\ fibErr # "none") => cancelled)
    /\ (fibPc = "returned" /\ fibErr # "none") ~> hcPc = "returned"
    /\ [](runPc = "stop" => (TasksOver /\ hcPc = "returned" /\ stopCalls = <<>>))
    /\ [](runPc # "returned" => stopCalls = <<>>)
    /\ []((runPc = "returned" /\ GroupRan) =>
            /\ Len(stopCalls) = 1
            /\ ~stopCalls[1].ctxDone
            /\ runErr = fibErr
            /\ ExitCode(runErr) = IF fibErr = "none" THEN 0 ELSE 1)

\* a signal ended the group without error, stopBgp failed, Run returned nil
C21_Witness ==
    /\ runPc = "returned"
    /\ cancelled
    /\ fibPc = "returned"
    /\ hcPc = "returned"
    /\ fibErr = "none"
    /\ Len(stopCalls) = 1
    /\ ~stopCalls[1].ok
    /\ runErr = "none"

\* the status a tick leaves, from its record: flipped when its callback worked
StatusAfter(rec) ==
    IF rec.cb # "none" /\ rec.cbOk
      THEN IF rec.status = Healthy THEN Unhealthy ELSE Healthy
      ELSE rec.status

\* a step of the health checker's ticker case
IsHCTick ==
    /\ hcPc = "loop" /\ hcPc' = "loop" /\ everProbed'
    /\ hist' # <<>> /\ hist' = Push(hist'[1], hist)
    /\ UNCHANGED <<fibPc, fibErr, kernel, lastFib>>
    /\ UNCHANGED <<healthCheckURL, policy, decision, runPc, runErr, cancelled, bgp,
                   startupAdvertises, engineOps, stopCalls>>
    /\ SelectSeq(rib', LAMBDA d : d.prefix = zeroPrefix) = SelectSeq(rib, LAMBDA d : d.prefix = zeroPrefix)

\* the advertise of Speaker.setup
IsSetupAdvertise ==
    /\ runPc = "setup_advertise"
    /\ hcPc = "idle" /\ hcPc' = "idle"
    /\ fibPc \in {"off", "configured"} /\ fibPc' = fibPc

\* C22: once setup is over only a tick of the health checker invokes advertise
\* or withdraw, and a tick invokes at most one of them; the status changes
\* only on a tick whose callback returned nil, and the next tick starts from
\* the status the tick before left; the advertise of setup is over before the
\* health checker and the reconciler start.
C22_CallbacksSerialized ==
    /\ [][(anycastPresent' # anycastPresent \/ lastCb' # lastCb \/ lastOkCb' # lastOkCb)
             => (IsHCTick \/ IsSetupAdvertise)]_vars
    /\ [][startupAdvertises' # startupAdvertises => IsSetupAdvertise]_vars
    /\ [][status' # status =>
             (IsHCTick /\ hist'[1].cb # "none" /\ hist'[1].cbOk /\ hist'[1].status = status)]_vars
    /\ [](Ticked => (hist[1].cb \in {"none", "healthy", "unhealthy"} /\ status = StatusAfter(hist[1])))
    /\ [](Len(hist) >= 2 => hist[1].status = StatusAfter(hist[2]))
    /\ []((hcPc # "idle" \/ fibPc \in {"idle", "loop", "returned"}) =>
              /\ runPc \in {"wait", "stop", "returned"}
              /\ ~SetupFailed
              /\ healthCheckURL = "" => startupAdvertises = 1)

\* beside the running reconciler, a tick promoted and the next tick started
\* from Healthy
C22_Witness ==
    /\ Len(hist) >= 2
    /\ hist[2].cb = "healthy" /\ hist[2].cbOk
    /\ hist[1].status = Healthy
    /\ fibPc = "loop"
    /\ lastFib.step = "tick"

----------------------------------------------------------------------------
(* Claims about the advertisement and the policies *)

\* the global table holds the anycast path
Advertised(table) == HasPath(table, anycastPath)

\* a step in which advertise, resp. withdraw, returned nil
AdvertiseWorked ==
    \/ IsHCTick /\ hist'[1].cb = "healthy" /\ hist'[1].cbOk
    \/ IsSetupAdvertise /\ startupAdvertises' # startupAdvertises /\ runPc' = "spawn"
WithdrawWorked == IsHCTick /\ hist'[1].cb = "unhealthy" /\ hist'[1].cbOk

PoliciesInstalled ==
    \E i \in DOMAIN engineOps : engineOps[i].op = "install_policy" /\ engineOps[i].ok

\* C24: with the policies installed, a path is accepted on import exactly
\* when it is 0.0.0.0/0 from a configured uplink or anycast_ip/32 originated
\* locally, and on export exactly when it is anycast_ip/32 going to a
\* configured uplink; in particular the table never holds anycast_ip/32
\* received from an uplink, and a successful local advertise is kept.
C24_PolicyEffect ==
    PoliciesInstalled =>
        /\ decision.direction = "import" =>
              (decision.verdict = accept <=>
                  \/ decision.nlri = "0.0.0.0/0" /\ decision.source \in Neighbors
                  \/ decision.nlri = AnycastPrefix /\ decision.source = "local")
        /\ decision.direction = "export" =>
              (decision.verdict = accept <=>
                  decision.nlri = AnycastPrefix /\ decision.target \in Neighbors)
        /\ LocalPathKept(policy, anycastPath)
        /\ \A nbr \in Neighbors : ~HasPath(rib, PeerPath(nbr, AnycastPrefix))
        /\ \A nlri \in TriedPrefixes \ {"0.0.0.0/0", AnycastPrefix} : ~HasDest(rib, nlri)

\* the names the add-policy calls of setupPolicies use, in order
AddedPolicyNames ==
    LET adds == SelectSeq(PolicyRequests, LAMBDA r : r.call = "AddPolicy")
    IN [i \in DOMAIN adds |-> adds[i].policy.name]

\* C25: once install_policy has worked the engine holds three policies under
\* the pairwise distinct names only-default-route, only-anycast-ip-import and
\* only-anycast-ip-export, each with exactly one statement; IMPORT is
\* [only-default-route, only-anycast-ip-import] and EXPORT is
\* [only-anycast-ip-export], both with default action REJECT; and no
\* add-policy call uses the name of a policy added before it.
C25_PolicyInventory ==
    PoliciesInstalled =>
        /\ Len(policy.policies) = 3
        /\ {policy.policies[i].name : i \in DOMAIN policy.policies} =
              {"only-default-route", "only-anycast-ip-import", "only-anycast-ip-export"}
        /\ \A i \in DOMAIN policy.policies : Len(policy.policies[i].statements) = 1
        /\ policy.import = [policies |-> <<"only-default-route", "only-anycast-ip-import">>,
                            defaultAction |-> reject]
        /\ policy.export = [policies |-> <<"only-anycast-ip-export">>,
                            defaultAction |-> reject]
        /\ NoDuplicates(AddedPolicyNames)

----------------------------------------------------------------------------
(* Claims about the gate and the reconciler side by side *)

\* what a clean tick of the reconciler does to the kernel table, given the
\* global table
TickOn(table, iter) == setDefaultRoute(table, kernel, TRUE, TRUE, TRUE, iter)

\* the kernel table holds a route the reconciler takes for its own
OursInstalled == \E i \in DOMAIN kernel : linuxRouteIsMine(kernel[i])

\* C26: a step that advertises, withdraws or changes the health status leaves
\* the kernel table and the reconciler alone; a step that changes the kernel
\* table is a step of the reconciler, which changes neither the health
\* checker's state nor the advertisement; and the reconciler does to the
\* kernel the same whether the anycast /32 is in the global table or not.
C26_GateAndFibIndependent ==
    /\ [][(IsHCTick \/ IsSetupAdvertise \/ status' # status \/ anycastPresent' # anycastPresent)
             => UNCHANGED <<kernel, fibPc, fibErr, lastFib>>]_vars
    /\ [][(kernel' # kernel \/ lastFib' # lastFib) =>
             /\ fibPc = "loop"
             /\ lastFib'.before = kernel
             /\ UNCHANGED <<hcPc, status, okCounter, hist, lastCb, lastOkCb, retryDue, everProbed>>
             /\ UNCHANGED <<anycastPresent, startupAdvertises, rib>>]_vars
    /\ [](\A iter \in MapOrders(RangedHops(rib)) :
             /\ TickOn(EngineAddPath(rib, anycastPath), iter) = TickOn(rib, iter)
             /\ TickOn(EngineDeletePath(rib, anycastPath), iter) = TickOn(rib, iter))

\* the reconciler installed its route, then the gate advertised and withdrew,
\* and the route is still there
C26_Witness ==
    /\ OursInstalled
    /\ lastFib.step = "tick"
    /\ ~HasPath(lastFib.dests, anycastPath)
    /\ Len(hist) >= 2
    /\ hist[2].cb = "healthy" /\ hist[2].cbOk
    /\ hist[1].cb = "unhealthy" /\ hist[1].cbOk

----------------------------------------------------------------------------
(* Claims about the routes the reconciler sends *)

\* the messages of the REPLACE requests of the last reconciler step
ReplaceMessages ==
    {lastFib.ops[i].msg : i \in {k \in DOMAIN lastFib.ops : lastFib.ops[k].op = "REPLACE"}}

\* C27: a tick sends a REPLACE only for a single 0.0.0.0/0 destination; with
\* exactly one path the message carries that path's next hop as its gateway
\* and no multipath list, with any other number of paths it carries no
\* gateway and a multipath list with exactly one entry for each distinct next
\* hop; every message has family AF_INET (2), table 254, protocol 186, type
\* unicast (1) and the configured metric as priority, and when the request
\* worked the kernel table holds the route.
C27_RouteShape ==
    (lastFib.step = "tick" /\ SentReplace) =>
        /\ SawOneDefault
        /\ Cardinality(ReplaceMessages) = 1
        /\ \A m \in ReplaceMessages :
              /\ m.family = 2 /\ m.table = 254 /\ m.protocol = 186 /\ m.type = 1
              /\ m.priority = linuxRouteMetric
              /\ m.dstLength = 0
              /\ Len(SeenPaths) = 1 =>
                    /\ m.multipath = <<>>
                    /\ m.gateway # <<>>
                    /\ IPString(m.gateway) = SeenPaths[1].nextHop
              /\ Len(SeenPaths) # 1 =>
                    /\ m.gateway = <<>>
                    /\ {IPString(m.multipath[k]) : k \in DOMAIN m.multipath} = SeenHops
                    /\ Len(m.multipath) = Cardinality(SeenHops)
              /\ lastFib.err = "none" => \E i \in DOMAIN kernel : kernel[i] = KernelStores(m)

\* two paths through one next hop were sent as a list of one entry
C27_Witness ==
    /\ lastFib.step = "tick" /\ SentReplace
    /\ lastFib.err = "none"
    /\ Len(SeenPaths) = 2
    /\ Cardinality(SeenHops) = 1

----------------------------------------------------------------------------
(* Claims about the counter and the ticks that do nothing *)

\* C28: the tick that promotes Unhealthy to Healthy leaves the counter as it
\* was (at the threshold or above); the counter goes back to 0 only on the
\* tick that demotes Healthy to Unhealthy with a withdraw that worked, and on
\* every such tick.
C28_CounterKeptOnPromotion ==
    /\ [][(status = Unhealthy /\ status' = Healthy) =>
             /\ okCounter' = okCounter
             /\ okCounter >= healthyThreshold
             /\ hist'[1].cb = "healthy" /\ hist'[1].cbOk]_vars
    /\ [][(okCounter' = 0 /\ okCounter # 0) =>
             /\ status = Healthy /\ status' = Unhealthy
             /\ hist'[1].cb = "unhealthy" /\ hist'[1].cbOk]_vars
    /\ [][(status = Healthy /\ status' = Unhealthy) => okCounter' = 0]_vars
    /\ [][okCounter' < okCounter => okCounter' = 0]_vars
    /\ [](status = Healthy => okCounter >= healthyThreshold)

\* just promoted, the counter still at the threshold
C28_Witness ==
    /\ Ticked
    /\ hist[1].cb = "healthy" /\ hist[1].cbOk
    /\ hist[1].count = healthyThreshold
    /\ status = Healthy
    /\ okCounter = healthyThreshold

\* C29: a tick whose probe fails while Unhealthy and a tick whose probe
\* succeeds while Healthy invoke no callback and change neither the status
\* nor the counter, nor the advertisement.
C29_NoActionTransitions ==
    /\ []((/\ Ticked
            /\ \/ ~hist[1].probe /\ hist[1].status = Unhealthy
               \/ hist[1].probe /\ hist[1].status = Healthy) =>
                /\ hist[1].cb = "none"
                /\ ~hist[1].cbOk
                /\ status = hist[1].status
                /\ okCounter = hist[1].count)
    /\ [][(IsHCTick /\ ((~hist'[1].probe /\ status = Unhealthy)
                          \/ (hist'[1].probe /\ status = Healthy))) =>
             UNCHANGED <<status, okCounter, anycastPresent, rib, lastCb, lastOkCb>>]_vars

\* a probe failed while Unhealthy with two successes counted, and they are
\* still counted
C29_Witness ==
    /\ Ticked
    /\ ~hist[1].probe /\ hist[1].status = Unhealthy /\ hist[1].count = 2
    /\ hist[1].cb = "none"
    /\ status = Unhealthy
    /\ okCounter = 2

\* C30: with the gate enabled, after every tick the status is Healthy exactly
\* when the anycast path is in the global table; on_healthy is invoked only
\* while Unhealthy and on_unhealthy only while Healthy; and the callbacks that
\* returned nil alternate, the first of them being on_healthy.
C30_StatusMirrorsAdvertisement ==
    /\ [](~RunBlocks(healthCheckURL) =>
            /\ status = Healthy <=> anycastPresent
            /\ status = Healthy <=> HasPath(rib, anycastPath))
    /\ [](Ticked =>
            /\ hist[1].cb = "healthy" => hist[1].status = Unhealthy
            /\ hist[1].cb = "unhealthy" => hist[1].status = Healthy)
    /\ [][(IsHCTick /\ hist'[1].cb # "none" /\ hist'[1].cbOk) =>
             /\ hist'[1].cb # lastOkCb
             /\ lastOkCb = "none" => hist'[1].cb = "healthy"
             /\ lastOkCb' = hist'[1].cb]_vars
    /\ [](lastOkCb = "healthy" <=> status = Healthy)

\* the path was withdrawn and a later probe succeeded below the threshold:
\* Unhealthy with the path absent
C30_Witness ==
    /\ ~RunBlocks(healthCheckURL)
    /\ Len(hist) >= 2
    /\ hist[2].cb = "unhealthy" /\ hist[2].cbOk
    /\ hist[1].cb = "none" /\ hist[1].probe
    /\ status = Unhealthy
    /\ ~HasPath(rib, anycastPath)
    /\ lastOkCb = "unhealthy"

----------------------------------------------------------------------------
(* Claims about shutdown *)

\* C31: once the supervising context is cancelled no tick of the health
\* checker invokes on_healthy or on_unhealthy; in particular a probe that
\* fails because the context is cancelled does not withdraw the path while
\* Healthy, and the status and the advertisement stay as they were.
C31_NoCallbackAfterCancel ==
    [][(cancelled /\ IsHCTick) =>
          /\ hist'[1].cb = "none"
          /\ UNCHANGED <<status, anycastPresent, lastCb, lastOkCb>>]_vars

\* the mutations of the last reconciler step are at most one, of the kind op
AtMostOne(op) ==
    /\ Len(lastFib.ops) <= 1
    /\ \A i \in DOMAIN lastFib.ops : lastFib.ops[i].op = op

\* C32: a tick sends at most one netlink mutation, a REPLACE; the cleanup
\* sends at most one, a DELETE, and runs only with the context cancelled;
\* once the cleanup has run UpdateFIB has returned and nothing is sent any
\* more, so the kernel table stays as the cleanup left it.
C32_NoReinstallAfterCleanup ==
    /\ [](lastFib.step = "tick" => AtMostOne("REPLACE"))
    /\ [](lastFib.step = "cleanup" =>
            /\ AtMostOne("DELETE")
            /\ cancelled
            /\ fibPc = "returned")
    /\ [](fibPc = "returned" /\ fibErr # "dial" => lastFib.step = "cleanup")
    /\ [][lastFib.step = "cleanup" => UNCHANGED <<kernel, lastFib, fibPc, fibErr>>]_vars
    /\ [][lastFib'.step = "cleanup" /\ lastFib' # lastFib => cancelled /\ fibPc = "loop"]_vars

\* the cleanup deleted the route a tick had installed
C32_Witness ==
    /\ lastFib.step = "cleanup"
    /\ Len(lastFib.ops) = 1
    /\ lastFib.err = "none"
    /\ Mine(lastFib.before) # {}
    /\ Mine(kernel) = {}
    /\ fibPc = "returned"

----------------------------------------------------------------------------
(* Claims about the route read back *)

\* the last step was a tick whose REPLACE the kernel took
ReplaceWorked == lastFib.step = "tick" /\ SentReplace /\ lastFib.err = "none"

\* the route the kernel holds for the message of that REPLACE
Installed == KernelStores(CHOOSE m \in ReplaceMessages : TRUE)

\* C33: after a REPLACE that worked the route as the kernel holds it is
\* "ours" and is the one the lookup returns; a tick over the same RIB that
\* follows sends nothing; and the cleanup finds the route and deletes it.
C33_InstalledRecognised ==
    ReplaceWorked =>
        /\ linuxRouteIsMine(Installed)
        /\ getLinuxBGPDefaultRoute(kernel) # 0
        /\ OursIn(kernel) = Installed
        /\ \A iter \in MapOrders(RangedHops(lastFib.dests)) :
              setDefaultRoute(lastFib.dests, kernel, TRUE, TRUE, TRUE, iter).ops = <<>>
        /\ LET c == cleanupDefaultRoute(kernel, TRUE, TRUE)
           IN /\ c.err = "none"
              /\ Len(c.ops) = 1 /\ c.ops[1].op = "DELETE"
              /\ c.kernel = Remove(kernel, getLinuxBGPDefaultRoute(kernel))

\* the tick before this state took the multi-path branch, its lookup
\* worked, and it sent nothing
MultiPathSkipped ==
    /\ SawOneDefault
    /\ Len(SeenPaths) # 1
    /\ \A i \in DOMAIN SeenPaths : SeenPaths[i].hasNextHop
    /\ lastFib.dumpOk
    /\ lastFib.err = "none"
    /\ lastFib.ops = <<>>

\* C34: the multi-path branch sends no REPLACE only when the route that is
\* mine has a multipath list whose set of gateways equals the set of the new
\* next hops; a list of the same length whose gateways all are new next hops
\* but do not cover them is rewritten.
C34_NoOpOnlyOnEqualSets ==
    MultiPathSkipped =>
        /\ Mine(lastFib.before) # {}
        /\ OursIn(lastFib.before).multipath # <<>>
        /\ GatewaysOf(OursIn(lastFib.before)) = SeenHops

\* C35: a tick that is streamed the single 0.0.0.0/0 destination with no
\* paths sends no netlink mutation, in particular no REPLACE without gateway
\* and with an empty multipath list, and leaves the kernel table as it was.
C35_EmptyDestinationHarmless ==
    (SawOneDefault /\ SeenPaths = <<>>) =>
        /\ lastFib.ops = <<>>
        /\ \A m \in ReplaceMessages : ~(m.gateway = <<>> /\ m.multipath = <<>>)
        /\ kernel = lastFib.before

----------------------------------------------------------------------------
(* Claims about the range of the counter *)

\* C36: the counter is always between 0 and the threshold (3); it goes up
\* only by one, only on a tick whose probe succeeded while Unhealthy and
\* only from a value below the threshold; and it goes down only to 0.
C36_BoundedCounter ==
    /\ [](okCounter \in 0..healthyThreshold)
    /\ [](healthyThreshold = 3)
    /\ [][okCounter' > okCounter =>
             /\ okCounter' = okCounter + 1
             /\ okCounter < healthyThreshold
             /\ IsHCTick
             /\ hist'[1].probe /\ hist'[1].status = Unhealthy /\ status = Unhealthy
             /\ hist'[1].cb = "none"]_vars
    /\ [][okCounter' < okCounter => okCounter' = 0 /\ IsHCTick]_vars

\* at the threshold the advertise failed and the counter stayed at 3
C36_Witness ==
    /\ Ticked
    /\ hist[1].probe /\ hist[1].status = Unhealthy
    /\ hist[1].count = healthyThreshold
    /\ hist[1].cb = "healthy" /\ ~hist[1].cbOk
    /\ status = Unhealthy
    /\ okCounter = healthyThreshold

====
